---- MODULE Spec2Model ----
(***************************************************************************)
(* The prompt library: the template variable engine                         *)
(* (utils/templateEngine.ts), the prompt editor, the store with its         *)
(* dialogs, import and export, the provider that loads and saves, the       *)
(* prompt list, and the error log.                                           *)
(* In the engine a string is a sequence of one-character strings and a      *)
(* name is a string; extractVariables and applyVariables are pure, and the  *)
(* state machine Spec draws a template and a value mapping and applies      *)
(* both functions to them.  Each other part has a specification of its own  *)
(* over the same variables.                                                 *)
(***************************************************************************)
EXTENDS Integers, Sequences, FiniteSets, TLC

\* ---------------------------------------------------------------- bounds
\* Longest template drawn, in characters.
MaxLen == 6
\* Longest template drawn that holds the name of an inherited property.
MaxWords == 4

\* ------------------------------------------------------------ characters
OpenBrace == "{"
CloseBrace == "}"
\* String.prototype.trim strips white space and line terminators; the
\* space stands for all of them.
WhiteSpace == {" "}
\* Characters a template is typed from: the braces, white space, and a letter
\* in both cases.
Alphabet == {OpenBrace, CloseBrace, " ", "a", "A"}
\* The name of a property every object inherits, typed as one word.
InheritedWord == "constructor"

\* The strings of at most n characters drawn from chars.
StringsUpTo(chars, n) == UNION {[1..k -> chars] : k \in 0..n}

Templates ==
  StringsUpTo(Alphabet, MaxLen) \cup StringsUpTo(Alphabet \cup {InheritedWord}, MaxWords)

\* Names the value mapping may hold an entry for, each with the values it may
\* take: "x" and "y" occur in no template, and one value is itself the text of
\* a reference to the other name.
ValuesOf ==
  (<<"a">> :> {<<"x">>, <<OpenBrace, "A", CloseBrace>>}) @@ (<<"A">> :> {<<"y">>})

\* The empty string is a property name like any other: an entry for it, alone
\* and beside an entry for a name.  "z" occurs in no template.
EmptyNameMappings == {(<<>> :> <<"z">>), (<<>> :> <<"z">>) @@ (<<"a">> :> <<"x">>)}

\* Record<string, string>: the own properties of the values object.
Mappings ==
  UNION {{V \in [D -> UNION {ValuesOf[k] : k \in DOMAIN ValuesOf}] :
            \A k \in D : V[k] \in ValuesOf[k]} : D \in SUBSET DOMAIN ValuesOf}
    \cup EmptyNameMappings

\* ------------------------------------------------- the regular expression
\* Mutant: the end of the text closes a span left open.
RECURSIVE NextCloseOrEnd(_, _)
NextCloseOrEnd(t, i) ==
  IF i > Len(t) THEN i
  ELSE IF t[i] = CloseBrace THEN i
  ELSE NextCloseOrEnd(t, i + 1)

\* /\{([^}]+)\}/g : the index of the first "}" at or after i, 0 when none.
RECURSIVE NextClose(_, _)
NextClose(t, i) ==
  IF i > Len(t) THEN 0
  ELSE IF t[i] = CloseBrace THEN i
  ELSE NextClose(t, i + 1)

\* The successive matches of the pattern from index i on, leftmost first, each
\* as [start, end] (the indices of its braces).  "[^}]+" takes every character
\* up to the first "}", at least one; a failed attempt resumes one to the right.
RECURSIVE MatchAllFrom(_, _)
MatchAllFrom(t, i) ==
  IF i > Len(t) THEN <<>>
  ELSE IF t[i] # OpenBrace THEN MatchAllFrom(t, i + 1)
  ELSE LET j == NextClose(t, i + 1)
       IN IF j = 0 \/ j = i + 1 THEN MatchAllFrom(t, i + 1)
          ELSE <<[start |-> i, end |-> j]>> \o MatchAllFrom(t, j + 1)

matchAll(t) == MatchAllFrom(t, 1)

\* match[1]: the capture group of a match.
Group1(t, m) == SubSeq(t, m.start + 1, m.end - 1)

\* String.prototype.trim
RECURSIVE trimStart(_)
trimStart(s) ==
  IF s # <<>> /\ Head(s) \in WhiteSpace THEN trimStart(Tail(s)) ELSE s

RECURSIVE trimEnd(_)
trimEnd(s) ==
  IF s # <<>> /\ s[Len(s)] \in WhiteSpace THEN trimEnd(SubSeq(s, 1, Len(s) - 1)) ELSE s

\* Mutant: trimStart in place of trim.
trimLeadingOnly(s) == trimStart(s)

trim(s) == trimEnd(trimStart(s))

\* ------------------------------------------------------- extractVariables
\* Mutant: an array push in place of Set.add.
SetAddWithoutCheck(variables, name) == Append(variables, name)

\* Set.prototype.add on a Set in insertion order: a value already held is
\* not added again and keeps its place.
SetAdd(variables, name) ==
  IF \E k \in 1..Len(variables) : variables[k] = name
  THEN variables
  ELSE Append(variables, name)

\* Mutant: the loop without its "if (variableName)" test.
RECURSIVE ExtractLoopKeepingEmpty(_, _, _)
ExtractLoopKeepingEmpty(t, matches, variables) ==
  IF matches = <<>> THEN variables
  ELSE ExtractLoopKeepingEmpty(t, Tail(matches),
                               SetAdd(variables, trim(Group1(t, Head(matches)))))

\* Mutant: the pattern without its "g" flag, so that only the first match is seen.
ExtractLoopFirstOnly(t, matches, variables) ==
  IF matches = <<>> THEN variables
  ELSE LET variableName == trim(Group1(t, Head(matches)))
       IN IF variableName # <<>> THEN SetAdd(variables, variableName) ELSE variables

\* for (const match of matches) { ... }
RECURSIVE ExtractLoop(_, _, _)
ExtractLoop(t, matches, variables) ==
  IF matches = <<>> THEN variables
  ELSE LET variableName == trim(Group1(t, Head(matches)))
       IN ExtractLoop(t, Tail(matches),
                      IF variableName # <<>> THEN SetAdd(variables, variableName)
                      ELSE variables)

\* Array.from(variables)
extractVariables(t) == ExtractLoop(t, matchAll(t), <<>>)

\* --------------------------------------------------------- applyVariables
\* Properties every plain object inherits from Object.prototype, with the
\* text String() gives for the inherited value.  One property stands for all
\* of them (constructor, toString, valueOf, hasOwnProperty, __proto__, ...).
ObjectPrototype == (<<"constructor">> :> <<"function Object() { [native code] }">>)

\* values[key] ?? '' : an own property first, then the prototype chain.
Lookup(values, key) ==
  IF key \in DOMAIN values THEN values[key]
  ELSE IF key \in DOMAIN ObjectPrototype THEN ObjectPrototype[key]
  ELSE <<>>

\* The replacement callback: (match, variableName) => values[variableName.trim()] ?? ''
Replacement(t, m, values) == Lookup(values, trim(Group1(t, m)))

\* Mutant: the pattern without its "g" flag, so that only the first match is
\* replaced.
ReplaceFirstOnly(t, i, matches, values) ==
  IF matches = <<>> THEN SubSeq(t, i, Len(t))
  ELSE LET m == Head(matches)
       IN SubSeq(t, i, m.start - 1) \o Replacement(t, m, values)
          \o SubSeq(t, m.end + 1, Len(t))

\* String.prototype.replace with a global pattern and a callback: the text
\* between the matches is copied, each match gives way to its replacement,
\* and the replacement text is not scanned again.
RECURSIVE ReplaceFrom(_, _, _, _)
ReplaceFrom(t, i, matches, values) ==
  IF matches = <<>> THEN SubSeq(t, i, Len(t))
  ELSE LET m == Head(matches)
       IN SubSeq(t, i, m.start - 1) \o Replacement(t, m, values)
          \o ReplaceFrom(t, m.end + 1, Tail(matches), values)

\* Mutant: the result is scanned and substituted once more.
applyVariablesRescanning(t, values) ==
  LET once == ReplaceFrom(t, 1, matchAll(t), values)
  IN ReplaceFrom(once, 1, matchAll(once), values)

\* What a call that raises a TypeError leaves in place of a returned text.
Thrown == <<"TypeError">>

\* Mutant: values[key].toString() in place of values[key] ?? '', which raises
\* a TypeError at the first reference whose name the mapping does not resolve.
applyVariablesStrict(t, values) ==
  IF \E k \in 1..Len(matchAll(t)) :
       /\ trim(Group1(t, matchAll(t)[k])) \notin DOMAIN values
       /\ trim(Group1(t, matchAll(t)[k])) \notin DOMAIN ObjectPrototype
  THEN Thrown
  ELSE ReplaceFrom(t, 1, matchAll(t), values)

applyVariables(t, values) == ReplaceFrom(t, 1, matchAll(t), values)

\* ------------------------------------------------------------ state machine
VARIABLES
  template,    \* the template string the functions are called on
  values,      \* the value mapping handed to applyVariables
  variables,   \* what extractVariables(template) returned
  result,      \* what applyVariables(template, values) returned
  pc,          \* "input", then "extracted", then "applied"; in the editor
               \* "closed", "pending" (the template effect is due) or "idle"
  previousTemplateRef,  \* PromptEditor: the template last reconciled
  prompts,              \* the store: state.prompts
  isEditorOpen,         \* AppContent: the editor modal is shown
  editingPrompt,        \* AppContent: the prompt being edited, NoPrompt if none
  deleteConfirmPrompt,  \* AppContent: the prompt the delete dialog shows
  importing,            \* the call of handleImport: its file, the store value
                        \* its closure holds, and how far it got
  dispatched,           \* the type of the action the last step dispatched
  isLoading,            \* the store: state.isLoading
  storage,              \* localStorage: the item under STORAGE_KEY
  searchQuery,          \* AppContent: the text of the search box
  selectedCategory,     \* AppContent: the category chosen, "" for all
  currentPage,          \* PromptList: the page shown
  pageSize,             \* PromptList: the prompts on a page
  exported,             \* the file handleExport downloaded last, NoFile if none
  cancelled,            \* PromptProvider: the flag its cleanup sets on unmount
  loadTimer,            \* PromptProvider: the timer of the initial load
  errorLog,             \* ErrorHandler: the errors kept, oldest first
  logged,               \* how many errors logError was handed so far
  logCall,              \* the method of ErrorHandler called last
  logLimit,             \* the limit handed to getErrorLog
  logResult             \* what the call returned, <<>> for void

engineVars == <<template, values, variables, result, pc, previousTemplateRef>>
appVars ==
  <<prompts, isEditorOpen, editingPrompt, deleteConfirmPrompt, importing, dispatched,
    isLoading, storage, exported>>
listVars == <<searchQuery, selectedCategory, currentPage, pageSize>>
providerVars == <<cancelled, loadTimer>>
logVars == <<errorLog, logged, logCall, logLimit, logResult>>
vars == <<engineVars, appVars, listVars, providerVars, logVars>>

\* useState<Prompt | undefined>() and useState<Prompt | null>(null): no prompt.
NoPrompt ==
  [id |-> "", title |-> "", category |-> "", template |-> "",
   createdAt |-> 0, updatedAt |-> 0]
\* No file was chosen yet.
NoFile == [kind |-> "none", items |-> <<>>]
NoImport == [status |-> "idle", file |-> NoFile, statePrompts |-> <<>>]

\* useState(''), useState(''), useState(1), useState(10)
DefaultPageSize == 10

ListInit ==
  /\ searchQuery = ""
  /\ selectedCategory = ""
  /\ currentPage = 1
  /\ pageSize = DefaultPageSize

\* private errorLog: LoggedError[] = [], and no call made yet
LogInit ==
  /\ errorLog = <<>>
  /\ logged = 0
  /\ logCall = "none"
  /\ logLimit = 0
  /\ logResult = <<>>

\* ------------------------------------------------------------ the error log
\* ErrorHandler (utils/errorHandler.ts).  A logged error is the number of the
\* logError call that made it: the first error logged is 1.
maxLogSize == 100

\* Mutant: a full log drops the error just pushed.
pushDroppingNewest(log, entry) ==
  IF Len(log) >= maxLogSize THEN log ELSE Append(log, entry)

\* this.errorLog.push(loggedError), then shift() when the log is too long
push(log, entry) ==
  LET pushed == Append(log, entry)
  IN IF Len(pushed) > maxLogSize THEN Tail(pushed) ELSE pushed

\* n calls of logError, count errors having been logged before them
RECURSIVE logErrors(_, _, _)
logErrors(log, count, n) ==
  IF n = 0 THEN log ELSE logErrors(push(log, count + 1), count + 1, n - 1)

\* Array.prototype.slice(begin): a negative begin counts from the end
slice(log, begin) ==
  LET start == IF begin < 0
               THEN (IF Len(log) + begin < 0 THEN 0 ELSE Len(log) + begin)
               ELSE (IF begin > Len(log) THEN Len(log) ELSE begin)
  IN SubSeq(log, start + 1, Len(log))

\* What getErrorLog(limit) returns, undefined being no limit as 0 is.
ErrorLogUpTo(log, limit) == IF limit # 0 THEN slice(log, 0 - limit) ELSE log

\* ------------------------------------------------------------ localStorage
STORAGE_VERSION == "v1"

\* The item under STORAGE_KEY: none, a text that is not JSON, the JSON null, a
\* JSON scalar, or a JSON object with its version field ("" when it has none)
\* and its prompts field, an array or not.
StoredItem(kind, version, isArray, ps) ==
  [kind |-> kind, version |-> version, isArray |-> isArray, prompts |-> ps]
NoItem == StoredItem("none", "", FALSE, <<>>)

\* localStorage.setItem(STORAGE_KEY, JSON.stringify({version, prompts})), the
\* storage having room for it.
savePrompts(ps) == StoredItem("object", STORAGE_VERSION, TRUE, ps)

\* What loadPrompts() comes to: the prompts it returns, or an error thrown to
\* its caller, the item it leaves in localStorage, and how many errors it
\* handed to handleStorageError.
Returned(ps, item, n) == [ok |-> TRUE, prompts |-> ps, storage |-> item, errors |-> n]
ThrownToCaller(item) == [ok |-> FALSE, prompts |-> <<>>, storage |-> item, errors |-> 0]

\* Mutant: no try around the body, so what JSON.parse and the read of
\* data.version throw reaches the caller.
loadPromptsUnguarded(stored) ==
  IF stored.kind = "none" THEN Returned(<<>>, stored, 0)
  ELSE IF stored.kind \in {"unparsable", "null"} THEN ThrownToCaller(stored)
  ELSE IF stored.kind = "scalar" \/ stored.version # STORAGE_VERSION
  THEN Returned(<<>>, NoItem, 1)
  ELSE IF ~stored.isArray THEN Returned(<<>>, stored, 0)
  ELSE Returned(stored.prompts, stored, 0)

\* loadPrompts(): JSON.parse throws on a text that is not JSON and the read of
\* data.version throws on null, both into the catch; a scalar has no version.
loadPrompts(stored) ==
  IF stored.kind = "none" THEN Returned(<<>>, stored, 0)
  ELSE IF stored.kind \in {"unparsable", "null"} THEN Returned(<<>>, stored, 1)
  ELSE IF stored.kind = "scalar" \/ stored.version # STORAGE_VERSION
  THEN Returned(<<>>, NoItem, 1)
  ELSE IF ~stored.isArray THEN Returned(<<>>, stored, 0)
  ELSE Returned(stored.prompts, stored, 0)

\* The application as it is mounted and loaded from an empty localStorage: an
\* empty store, saved; no modal, no import.
AppInit ==
  /\ ListInit
  /\ isLoading = FALSE
  /\ storage = savePrompts(<<>>)
  /\ prompts = <<>>
  /\ isEditorOpen = FALSE
  /\ editingPrompt = NoPrompt
  /\ deleteConfirmPrompt = NoPrompt
  /\ importing = NoImport
  /\ dispatched = "NONE"
  /\ exported = NoFile
  /\ cancelled = FALSE
  /\ loadTimer = "fired"
  /\ LogInit

Init ==
  /\ template \in Templates
  /\ values = <<>>
  /\ variables = <<>>
  /\ result = <<>>
  /\ pc = "input"
  /\ previousTemplateRef = <<>>
  /\ AppInit

\* const vars = extractVariables(template)
Extract ==
  /\ pc = "input"
  /\ variables' = extractVariables(template)
  /\ pc' = "extracted"
  /\ UNCHANGED <<template, values, result, previousTemplateRef, appVars, providerVars, logVars, listVars>>

\* const preview = applyVariables(template, variableValues)
Apply ==
  /\ pc = "extracted"
  /\ \E V \in Mappings :
       /\ values' = V
       /\ result' = applyVariables(template, V)
  /\ pc' = "applied"
  /\ UNCHANGED <<template, variables, previousTemplateRef, appVars, providerVars, logVars, listVars>>

Next == Extract \/ Apply

Spec == Init /\ [][Next]_vars

\* ------------------------------------------------------ the prompt editor
\* PromptEditor (components/prompts/VariablesPanel.tsx): the template the user
\* types, the values typed for its variables, and the preview rendered from
\* both.  template, values, variables and result are the editor's template,
\* variableValues, the names VariablesPanel shows and the preview.

\* Most pieces a template drawn in the editor is put together from.
MaxPieces == 2

\* Plain text, a reference to each of two names, and a reference to the name
\* of an inherited property.
Pieces ==
  { <<"a">>, <<OpenBrace, "a", CloseBrace>>, <<OpenBrace, "A", CloseBrace>>,
    <<OpenBrace, InheritedWord, CloseBrace>> }

RECURSIVE Concat(_)
Concat(ps) == IF ps = <<>> THEN <<>> ELSE Head(ps) \o Concat(Tail(ps))

\* What the textarea may hold after a change, and prompt.template on opening.
EditorTemplates == {Concat(ps) : ps \in StringsUpTo(Pieces, MaxPieces)}

\* What the user types into the input of a variable.
EditorValues == {<<>>, <<"x">>}

\* newValues[v] = prev[v] ?? '' for each v of vars
Reconcile(prev, names) == [n \in {names[k] : k \in 1..Len(names)} |-> Lookup(prev, n)]

\* {preview || <span>Preview will appear here ...</span>}
ShowsPlaceholder(preview) == preview = <<>>

EditorInit ==
  /\ pc = "closed"
  /\ template = <<>>
  /\ values = <<>>
  /\ variables = <<>>
  /\ result = <<>>
  /\ previousTemplateRef = <<>>
  /\ AppInit

\* The editor mounts: the state starts empty, the prompt effect sets the
\* template of the prompt being edited (the empty template for a new prompt),
\* and the template effect, which ran on the empty template and reset the
\* values and the ref, is due again for the template just set.
OpenEditor ==
  /\ pc = "closed"
  /\ \E T \in EditorTemplates :
       /\ template' = T
       /\ variables' = extractVariables(T)
       /\ result' = applyVariables(T, <<>>)
  /\ values' = <<>>
  /\ previousTemplateRef' = <<>>
  /\ pc' = "pending"
  /\ UNCHANGED <<appVars, providerVars, logVars, listVars>>

\* onChange of the textarea: setTemplate(e.target.value), and the render that
\* follows it.
SetTemplate ==
  /\ pc = "idle"
  /\ \E T \in EditorTemplates :
       /\ T # template
       /\ template' = T
       /\ variables' = extractVariables(T)
       /\ result' = applyVariables(T, values)
  /\ pc' = "pending"
  /\ UNCHANGED <<values, previousTemplateRef, appVars, providerVars, logVars, listVars>>

\* The template effect, and the render that follows it.
TemplateEffect ==
  /\ pc = "pending"
  /\ IF template = previousTemplateRef
     THEN UNCHANGED <<values, result, previousTemplateRef>>
     ELSE /\ previousTemplateRef' = template
          /\ values' = Reconcile(values, extractVariables(template))
          /\ result' = applyVariables(template, values')
  /\ pc' = "idle"
  /\ UNCHANGED <<template, variables, appVars, providerVars, logVars, listVars>>

\* handleVariableChange(variable, value), called from the input VariablesPanel
\* renders for a name of the template.
VariableChange ==
  /\ pc = "idle"
  /\ \E i \in 1..Len(variables), v \in EditorValues :
       values' = [k \in DOMAIN values \cup {variables[i]} |->
                    IF k = variables[i] THEN v ELSE values[k]]
  /\ result' = applyVariables(template, values')
  /\ UNCHANGED <<template, variables, pc, previousTemplateRef, appVars, providerVars, logVars, listVars>>

\* Cancel or save: the modal closes and the editor unmounts.
CloseEditor ==
  /\ pc = "idle"
  /\ pc' = "closed"
  /\ template' = <<>>
  /\ values' = <<>>
  /\ variables' = <<>>
  /\ result' = <<>>
  /\ previousTemplateRef' = <<>>
  /\ UNCHANGED <<appVars, providerVars, logVars, listVars>>

EditorNext == OpenEditor \/ SetTemplate \/ TemplateEffect \/ VariableChange \/ CloseEditor

SpecEditor == EditorInit /\ [][EditorNext]_vars

\* ------------------------------------------------ the store and the dialogs
\* AppContent (app/App.tsx) over the reducer (store/promptReducer.ts) and the
\* import functions (utils/exportImport.ts).  A prompt (domain/prompt.ts) is a
\* record of id, title, category, template, createdAt and updatedAt.

\* Most prompts the store holds.
MaxPrompts == 2

\* The ids prompts have.
Ids == {"p1", "p2"}
\* generateId(): an id no prompt of the list has.
generateId(ps) == Ids \ {ps[k].id : k \in 1..Len(ps)}
\* The title typed into the editor, and the title of the prompts in a file.
TypedTitle == "s"
FileTitle == "f"
\* The template typed into the editor and the template of the prompts in a
\* file, opaque texts here.
TypedTemplate == "t"
FileTemplate == "u"
\* PromptFormData: what the editor hands to onSave.
TypedData == [title |-> TypedTitle, category |-> "Other", template |-> TypedTemplate]

\* Date.now(): the store specifications read the clock at one instant, later
\* than the dates of the prompts a file or localStorage holds.
DateNow == 1

\* The value of a field whose typeof is not 'string', or not 'number'.
NotAString == "<number>"
NotANumber == -1

\* A prompt as a file or localStorage holds it.
FilePrompt(id, category) ==
  [id |-> id, title |-> FileTitle, category |-> category, template |-> FileTemplate,
   createdAt |-> 0, updatedAt |-> 0]
FileP1 == FilePrompt("p1", "Other")
FileP2 == FilePrompt("p2", "Other")
Malformed == FilePrompt(NotAString, "Other")
\* A prompt whose category is a string that is no Category.
Uncategorised == FilePrompt("p2", "Misc")

\* The files the user may choose: one that cannot be read, one that is not
\* JSON, a JSON scalar, an object without a prompts array, and export objects
\* and bare arrays of items.
ImportFiles ==
  {[kind |-> k, items |-> <<>>] : k \in {"unreadable", "text", "scalar", "object"}}
    \cup {[kind |-> "export", items |-> l] :
             l \in {<<>>, <<Malformed>>, <<FileP1>>, <<FileP1, FileP2>>,
                    <<FileP2, Malformed, FileP1>>, <<Uncategorised>>}}
    \cup {[kind |-> "array", items |-> l] : l \in {<<Malformed, Malformed>>, <<FileP2, FileP2>>}}

\* A promise settled or a function ended: resolved with prompts or rejected
\* with a message, one error handed to handleImportExportError.
Resolved(ps) == [ok |-> TRUE, prompts |-> ps, message |-> "", errors |-> 0]
Rejected(m) == [ok |-> FALSE, prompts |-> <<>>, message |-> m, errors |-> 1]

\* The test validatePromptsArray makes on an item.
IsPromptItem(item) ==
  /\ item.id # NotAString /\ item.title # NotAString /\ item.category # NotAString
  /\ item.template # NotAString
  /\ item.createdAt # NotANumber /\ item.updatedAt # NotANumber

\* Mutant: a file with no valid prompt gives the empty list.
validatePromptsArrayLenient(items) == Resolved(SelectSeq(items, IsPromptItem))

validatePromptsArray(items) ==
  LET validPrompts == SelectSeq(items, IsPromptItem)
  IN IF Len(validPrompts) = 0
     THEN Rejected("No valid prompts found in file")
     ELSE Resolved(validPrompts)

validateImportData(data) ==
  IF data.kind = "scalar" THEN Rejected("Invalid file format: expected JSON object")
  ELSE IF data.kind \in {"export", "array"} THEN validatePromptsArray(data.items)
  ELSE Rejected("Invalid file format: expected prompts array or export object")

\* What validateImportData throws is caught by reader.onload, which hands it
\* to handleImportExportError once more.
readImportFile(file) ==
  IF file.kind = "unreadable" THEN Rejected("Failed to read file")
  ELSE IF file.kind = "text" THEN Rejected("Unexpected token")
  ELSE LET validated == validateImportData(file)
       IN IF validated.ok THEN validated
          ELSE [validated EXCEPT !.errors = @ + 1]

\* The cases of promptReducer, on the list of prompts.
AddPrompt(ps, id, data, now) ==
  Append(ps, [id |-> id, title |-> data.title, category |-> data.category,
              template |-> data.template, createdAt |-> now, updatedAt |-> now])
\* Mutant: the prompt updated is stamped anew, createdAt included.
UpdatePromptRestamped(ps, id, data, now) ==
  [k \in 1..Len(ps) |->
     IF ps[k].id = id
     THEN [ps[k] EXCEPT !.title = data.title, !.category = data.category,
                        !.template = data.template, !.createdAt = now,
                        !.updatedAt = now]
     ELSE ps[k]]

\* prompts.map: { ...prompt, ...data, updatedAt: Date.now() } for the id
UpdatePrompt(ps, id, data, now) ==
  [k \in 1..Len(ps) |->
     IF ps[k].id = id
     THEN [ps[k] EXCEPT !.title = data.title, !.category = data.category,
                        !.template = data.template, !.updatedAt = now]
     ELSE ps[k]]
DeletePrompt(ps, id) == SelectSeq(ps, LAMBDA q : q.id # id)
ImportPrompts(ps, payload) == payload

\* Merge: [...state.prompts, ...newPrompts], newPrompts being the prompts of
\* the file whose id state.prompts has not.
MergePayload(statePrompts, filePrompts) ==
  LET existingIds == {statePrompts[k].id : k \in 1..Len(statePrompts)}
      newPrompts == SelectSeq(filePrompts, LAMBDA q : q.id \notin existingIds)
  IN statePrompts \o newPrompts

\* The rows PromptList shows (components/prompts/PromptList.tsx).
toLowerCase(text) ==
  CASE text = "S" -> "s"
    [] text = "F" -> "f"
    [] OTHER -> text

\* searchQuery.trim()
trimQuery(text) == IF text = " " THEN "" ELSE text

\* text.includes(query), for texts of at most one character
includes(text, query) == query = "" \/ query = text

filteredPrompts(ps, category, query) ==
  LET filtered == IF category # ""
                  THEN SelectSeq(ps, LAMBDA q : q.category = category)
                  ELSE ps
  IN IF trimQuery(query) # ""
     THEN SelectSeq(filtered,
                    LAMBDA q : \/ includes(toLowerCase(q.title), toLowerCase(query))
                               \/ includes(toLowerCase(q.template), toLowerCase(query)))
     ELSE filtered

\* Math.ceil(filteredPrompts.length / pageSize)
totalPages(ps, category, query, size) ==
  (Len(filteredPrompts(ps, category, query)) + size - 1) \div size

\* filteredPrompts.slice(start, end)
paginatedPrompts(ps, category, query, page, size) ==
  LET filtered == filteredPrompts(ps, category, query)
      start == (page - 1) * size
      end == IF start + size > Len(filtered) THEN Len(filtered) ELSE start + size
  IN SubSeq(filtered, start + 1, end)

\* Mutant: the save effect saves while the store is loading too.
AfterSaveEffectUnguarded(ps) == savePrompts(ps)

\* A handler that changes state.prompts is followed by the render and by the
\* save effect of the provider, which writes the new list to localStorage
\* unless the store is loading.
AfterSaveEffect(ps) == IF isLoading THEN storage ELSE savePrompts(ps)

\* The application is mounted and shows no modal.
NoModal == ~cancelled /\ ~isEditorOpen /\ deleteConfirmPrompt = NoPrompt

handleAddPrompt ==
  /\ NoModal
  /\ editingPrompt' = NoPrompt
  /\ isEditorOpen' = TRUE
  /\ dispatched' = "NONE"
  /\ UNCHANGED <<prompts, deleteConfirmPrompt, importing>>
  /\ UNCHANGED <<isLoading, storage, engineVars, providerVars, logVars, exported, listVars>>

\* onEditPrompt of a row of the list: the rows are those of the page shown,
\* and there are none while the store is loading.
handleEditPrompt ==
  /\ NoModal
  /\ ~isLoading
  /\ LET rows == paginatedPrompts(prompts, selectedCategory, searchQuery,
                                  currentPage, pageSize)
     IN \E k \in 1..Len(rows) : editingPrompt' = rows[k]
  /\ isEditorOpen' = TRUE
  /\ dispatched' = "NONE"
  /\ UNCHANGED <<prompts, deleteConfirmPrompt, importing>>
  /\ UNCHANGED <<isLoading, storage, engineVars, providerVars, logVars, exported, listVars>>

handleSave ==
  /\ isEditorOpen
  /\ deleteConfirmPrompt = NoPrompt
  /\ IF editingPrompt # NoPrompt
     THEN /\ prompts' = UpdatePrompt(prompts, editingPrompt.id, TypedData, DateNow)
          /\ dispatched' = "UPDATE_PROMPT"
     ELSE /\ Len(prompts) < MaxPrompts
          /\ \E id \in generateId(prompts) :
               prompts' = AddPrompt(prompts, id, TypedData, DateNow)
          /\ dispatched' = "ADD_PROMPT"
  /\ isEditorOpen' = FALSE
  /\ editingPrompt' = NoPrompt
  /\ UNCHANGED <<deleteConfirmPrompt, importing>>
  /\ storage' = AfterSaveEffect(prompts')
  /\ UNCHANGED <<isLoading, engineVars, providerVars, logVars, exported, listVars>>

handleCancel ==
  /\ isEditorOpen
  /\ deleteConfirmPrompt = NoPrompt
  /\ isEditorOpen' = FALSE
  /\ editingPrompt' = NoPrompt
  /\ dispatched' = "NONE"
  /\ UNCHANGED <<prompts, deleteConfirmPrompt, importing>>
  /\ UNCHANGED <<isLoading, storage, engineVars, providerVars, logVars, exported, listVars>>

\* Mutant: the Delete button of the editor deletes at once.
handleDeleteClickAtOnce ==
  /\ isEditorOpen
  /\ deleteConfirmPrompt = NoPrompt
  /\ editingPrompt # NoPrompt
  /\ prompts' = DeletePrompt(prompts, editingPrompt.id)
  /\ dispatched' = "DELETE_PROMPT"
  /\ isEditorOpen' = FALSE
  /\ editingPrompt' = NoPrompt
  /\ UNCHANGED <<deleteConfirmPrompt, importing>>
  /\ storage' = AfterSaveEffect(prompts')
  /\ UNCHANGED <<isLoading, engineVars, providerVars, logVars, exported, listVars>>

\* The editor shows its Delete button in edit mode only.
handleDeleteClick ==
  /\ isEditorOpen
  /\ deleteConfirmPrompt = NoPrompt
  /\ editingPrompt # NoPrompt
  /\ deleteConfirmPrompt' = editingPrompt
  /\ dispatched' = "NONE"
  /\ UNCHANGED <<prompts, isEditorOpen, editingPrompt, importing>>
  /\ UNCHANGED <<isLoading, storage, engineVars, providerVars, logVars, exported, listVars>>

handleDeleteConfirm ==
  /\ deleteConfirmPrompt # NoPrompt
  /\ prompts' = DeletePrompt(prompts, deleteConfirmPrompt.id)
  /\ dispatched' = "DELETE_PROMPT"
  /\ deleteConfirmPrompt' = NoPrompt
  /\ isEditorOpen' = FALSE
  /\ editingPrompt' = NoPrompt
  /\ UNCHANGED importing
  /\ storage' = AfterSaveEffect(prompts')
  /\ UNCHANGED <<isLoading, engineVars, providerVars, logVars, exported, listVars>>

handleDeleteCancel ==
  /\ deleteConfirmPrompt # NoPrompt
  /\ deleteConfirmPrompt' = NoPrompt
  /\ dispatched' = "NONE"
  /\ UNCHANGED <<prompts, isEditorOpen, editingPrompt, importing>>
  /\ UNCHANGED <<isLoading, storage, engineVars, providerVars, logVars, exported, listVars>>

\* Escape with the delete dialog open: the key handlers of both modals run,
\* handleCancel and handleDeleteCancel.
handleEscape ==
  /\ deleteConfirmPrompt # NoPrompt
  /\ isEditorOpen' = FALSE
  /\ editingPrompt' = NoPrompt
  /\ deleteConfirmPrompt' = NoPrompt
  /\ dispatched' = "NONE"
  /\ UNCHANGED <<prompts, importing>>
  /\ UNCHANGED <<isLoading, storage, engineVars, providerVars, logVars, exported, listVars>>

\* exportPrompts(prompts): the text of the file, which JSON.parse turns into
\* an export object whose prompts are the prompts stringified; their strings
\* and their numbers come back as they were.
exportPrompts(ps) == [kind |-> "export", items |-> ps]

\* handleExport: downloadPrompts(state.prompts), the download going through.
handleExport ==
  /\ NoModal
  /\ exported' = exportPrompts(prompts)
  /\ dispatched' = "NONE"
  /\ UNCHANGED <<prompts, isEditorOpen, editingPrompt, deleteConfirmPrompt, importing>>
  /\ UNCHANGED <<isLoading, storage, engineVars, providerVars, logVars, listVars>>

\* The file downloaded last is among the files the user may choose.
Downloads == IF exported = NoFile THEN {} ELSE {exported}

\* handleImport(file) up to its await: the file is being read, and the closure
\* holds the state.prompts of the render the handler belongs to.  One import
\* runs at a time.
handleImport ==
  /\ NoModal
  /\ importing.status # "reading"
  /\ \E file \in ImportFiles \cup Downloads :
       importing' = [status |-> "reading", file |-> file, statePrompts |-> prompts]
  /\ dispatched' = "NONE"
  /\ UNCHANGED <<prompts, isEditorOpen, editingPrompt, deleteConfirmPrompt>>
  /\ UNCHANGED <<isLoading, storage, engineVars, providerVars, logVars, exported, listVars>>

\* handleImport after its await: the promise of readImportFile has settled,
\* and when it resolved window.confirm has asked for replace (OK) or merge.
\* When it rejected, the catch hands the error to handleImportExportError, after
\* those readImportFile handed over; the import that fails is explored as the
\* first error of the session.
handleImportSettled ==
  /\ importing.status = "reading"
  /\ LET settled == readImportFile(importing.file)
         merged == MergePayload(importing.statePrompts, settled.prompts)
     IN IF ~settled.ok
        THEN /\ errorLog = <<>>
             /\ importing' = [importing EXCEPT !.status = "rejected", !.statePrompts = <<>>]
             /\ dispatched' = "NONE"
             /\ errorLog' = logErrors(errorLog, logged, settled.errors + 1)
             /\ logged' = logged + settled.errors + 1
             /\ logCall' = "logError"
             /\ logLimit' = 0
             /\ logResult' = <<>>
             /\ UNCHANGED prompts
        ELSE /\ UNCHANGED logVars
             /\ \E replace \in BOOLEAN :
                  IF replace
                  THEN /\ Len(settled.prompts) <= MaxPrompts
                       /\ prompts' = ImportPrompts(prompts, settled.prompts)
                       /\ dispatched' = "IMPORT_PROMPTS"
                       /\ importing' =
                            [importing EXCEPT !.status = "replaced", !.statePrompts = <<>>]
                  ELSE IF Len(merged) > Len(importing.statePrompts)
                  THEN /\ Len(merged) <= MaxPrompts
                       /\ prompts' = ImportPrompts(prompts, merged)
                       /\ dispatched' = "IMPORT_PROMPTS"
                       /\ importing' =
                            [importing EXCEPT !.status = "merged", !.statePrompts = <<>>]
                  ELSE /\ importing' =
                            [importing EXCEPT !.status = "nothing new", !.statePrompts = <<>>]
                       /\ dispatched' = "NONE"
                       /\ UNCHANGED prompts
  /\ UNCHANGED <<isEditorOpen, editingPrompt, deleteConfirmPrompt>>
  /\ storage' = AfterSaveEffect(prompts')
  /\ UNCHANGED <<isLoading, engineVars, providerVars, exported, listVars>>

AppNext ==
  \/ handleAddPrompt \/ handleEditPrompt \/ handleSave \/ handleCancel
  \/ handleDeleteClick \/ handleDeleteConfirm \/ handleDeleteCancel \/ handleEscape
  \/ handleImport \/ handleImportSettled

EngineIdle ==
  /\ template = <<>>
  /\ values = <<>>
  /\ variables = <<>>
  /\ result = <<>>
  /\ pc = "closed"
  /\ previousTemplateRef = <<>>

\* The application with the editor component left out.
AppStart == EngineIdle /\ AppInit

SpecApp == AppStart /\ [][AppNext]_vars

\* ------------------------------------------------------- the prompt provider
\* PromptProvider: the initial load from localStorage and the save effect.

\* The prompts a stored list may hold, and the lists.
StoredPrompts ==
  {[FilePrompt(i, "Other") EXCEPT !.title = t] : i \in Ids, t \in {TypedTitle, FileTitle}}
StoredLists == StringsUpTo(StoredPrompts, MaxPrompts)

\* "v0" is the version of another schema.
StoredItems ==
  {StoredItem(k, "", FALSE, <<>>) : k \in {"none", "unparsable", "null", "scalar"}}
    \cup {StoredItem("object", v, FALSE, <<>>) : v \in {STORAGE_VERSION, "v0", ""}}
    \cup {StoredItem("object", v, TRUE, l) :
             v \in {STORAGE_VERSION, "v0", ""}, l \in StoredLists}

\* The provider mounts over what an earlier session left in localStorage.
ProviderInit ==
  /\ EngineIdle
  /\ ListInit
  /\ isLoading = TRUE
  /\ storage \in StoredItems
  /\ prompts = <<>>
  /\ isEditorOpen = FALSE
  /\ editingPrompt = NoPrompt
  /\ deleteConfirmPrompt = NoPrompt
  /\ importing = NoImport
  /\ dispatched = "LOAD_START"
  /\ exported = NoFile
  /\ cancelled = FALSE
  /\ loadTimer = "pending"
  /\ LogInit

\* What the load hands to the error handler: errorLog' and the rest of logVars'
\* after n errors were logged.
LogsErrors(n) ==
  IF n = 0 THEN UNCHANGED logVars
  ELSE /\ errorLog' = logErrors(errorLog, logged, n)
       /\ logged' = logged + n
       /\ logCall' = "logError"
       /\ logLimit' = 0
       /\ logResult' = <<>>

\* Mutant: the timer callback does not look at cancelled.
LoadEffectAfterUnmount ==
  /\ loadTimer = "pending"
  /\ loadTimer' = "fired"
  /\ LET loaded == loadPrompts(storage)
     IN /\ storage' = loaded.storage
        /\ IF loaded.ok
           THEN prompts' = loaded.prompts /\ dispatched' = "LOAD_SUCCESS"
           ELSE prompts' = prompts /\ dispatched' = "LOAD_ERROR"
        /\ LogsErrors(loaded.errors + (IF loaded.ok THEN 0 ELSE 1))
  /\ isLoading' = FALSE
  /\ UNCHANGED <<isEditorOpen, editingPrompt, deleteConfirmPrompt, importing, exported,
                 cancelled, engineVars, listVars>>

\* The load timer fires.  After the unmount the callback returns at once;
\* else loadPrompts(), then LOAD_SUCCESS with what it returned, or LOAD_ERROR
\* when it threw.
LoadEffect ==
  /\ loadTimer = "pending"
  /\ loadTimer' = "fired"
  /\ IF cancelled
     THEN /\ dispatched' = "NONE"
          /\ UNCHANGED <<prompts, isLoading, storage, logVars>>
     ELSE LET loaded == loadPrompts(storage)
          IN /\ storage' = loaded.storage
             /\ IF loaded.ok
                THEN prompts' = loaded.prompts /\ dispatched' = "LOAD_SUCCESS"
                ELSE prompts' = prompts /\ dispatched' = "LOAD_ERROR"
             /\ LogsErrors(loaded.errors + (IF loaded.ok THEN 0 ELSE 1))
             /\ isLoading' = FALSE
  /\ UNCHANGED <<isEditorOpen, editingPrompt, deleteConfirmPrompt, importing, exported,
                 cancelled, engineVars, listVars>>

\* The save effect, run after the render that follows the end of the load.
SaveEffect ==
  /\ ~cancelled
  /\ ~isLoading
  /\ dispatched \in {"LOAD_SUCCESS", "LOAD_ERROR"}
  /\ storage' = savePrompts(prompts)
  /\ dispatched' = "NONE"
  /\ UNCHANGED <<prompts, isLoading, isEditorOpen, editingPrompt, deleteConfirmPrompt,
                 importing, exported, engineVars, providerVars, logVars, listVars>>

\* The provider unmounts, and the application under it: the cleanup of the
\* load effect sets cancelled, and the modals are gone.  prompts and isLoading
\* stay as the reducer held them last.
Unmount ==
  /\ ~cancelled
  /\ cancelled' = TRUE
  /\ isEditorOpen' = FALSE
  /\ editingPrompt' = NoPrompt
  /\ deleteConfirmPrompt' = NoPrompt
  /\ dispatched' = "NONE"
  /\ UNCHANGED <<prompts, isLoading, storage, importing, exported, loadTimer,
                 engineVars, logVars, listVars>>

\* The top bar shows Add Prompt while the store is loading as well.
ProviderNext ==
  \/ LoadEffect \/ SaveEffect \/ Unmount
  \/ handleAddPrompt \/ handleSave \/ handleCancel

SpecProvider == ProviderInit /\ [][ProviderNext]_vars

\* ------------------------------------------------------ export and import
\* The top bar over a store an earlier session filled: Export downloads the
\* store, Import reads a file, the one downloaded or another.

ExportStart ==
  /\ EngineIdle
  /\ ListInit
  /\ LogInit
  /\ prompts \in StoredLists
  /\ storage = savePrompts(prompts)
  /\ isLoading = FALSE
  /\ isEditorOpen = FALSE
  /\ editingPrompt = NoPrompt
  /\ deleteConfirmPrompt = NoPrompt
  /\ importing = NoImport
  /\ dispatched = "NONE"
  /\ exported = NoFile
  /\ cancelled = FALSE
  /\ loadTimer = "fired"

ExportNext == handleExport \/ handleImport \/ handleImportSettled

SpecExport == ExportStart /\ [][ExportNext]_vars

\* ---------------------------------------------------------- the prompt list
\* PromptList and Pagination (components/prompts) under the search box and
\* the category select of the top bar.  Titles, templates and queries are
\* texts of at most one character.

\* Most prompts the store holds when the list is shown.
MaxListed == 21
\* The last page Next is followed to.
MaxPage == 4

CATEGORIES == {"Coding", "Writing", "Marketing", "Other"}
pageSizes == {10, 20, 50}
\* What may be typed into the search box.
Queries == {"", " ", "s", "F"}

\* A store of n prompts of two titles and two categories.
Listed(n) ==
  [k \in 1..n |->
     [id |-> ToString(k),
      title |-> IF k % 2 = 1 THEN "s" ELSE "F",
      category |-> IF k % 3 = 0 THEN "Writing" ELSE "Coding",
      template |-> IF k % 2 = 1 THEN "s" ELSE "F",
      createdAt |-> 0, updatedAt |-> 0]]

\* The numbers getPageNumbers() returns.
getPageNumbers(page, total) ==
  IF total <= 5 THEN 1..total
  ELSE IF page <= 3 THEN (1..4) \cup {total}
  ELSE IF page >= total - 2 THEN {1} \cup ((total - 3)..total)
  ELSE {1, total} \cup ((page - 1)..(page + 1))

\* Pagination is rendered when the filtered list is not empty.  The page is
\* behind the overlay of an open modal.
PaginationShown == Len(filteredPrompts(prompts, selectedCategory, searchQuery)) > 0

\* The list is shown over a store that was loaded and saved.
ListStart ==
  /\ EngineIdle
  /\ ListInit
  /\ prompts \in {Listed(n) : n \in 0..MaxListed}
  /\ storage = savePrompts(prompts)
  /\ isLoading = FALSE
  /\ isEditorOpen = FALSE
  /\ editingPrompt = NoPrompt
  /\ deleteConfirmPrompt = NoPrompt
  /\ importing = NoImport
  /\ dispatched = "NONE"
  /\ exported = NoFile
  /\ cancelled = FALSE
  /\ loadTimer = "fired"
  /\ LogInit

\* onChange of the search box: setSearchQuery, the render, and the effect of
\* PromptList on [selectedCategory, searchQuery].
onSearchChange ==
  /\ NoModal
  /\ \E query \in Queries \ {searchQuery} : searchQuery' = query
  /\ currentPage' = 1
  /\ UNCHANGED <<selectedCategory, pageSize, appVars, providerVars, logVars, engineVars>>

\* onChange of the category select, the render, and the same effect.
onCategoryChange ==
  /\ NoModal
  /\ \E category \in (CATEGORIES \cup {""}) \ {selectedCategory} :
       selectedCategory' = category
  /\ currentPage' = 1
  /\ UNCHANGED <<searchQuery, pageSize, appVars, providerVars, logVars, engineVars>>

\* Previous, a page button, or Next.
onPageChange ==
  /\ NoModal
  /\ PaginationShown
  /\ LET total == totalPages(prompts, selectedCategory, searchQuery, pageSize)
     IN \E page \in getPageNumbers(currentPage, total)
                      \cup (IF currentPage = 1 THEN {} ELSE {currentPage - 1})
                      \cup (IF currentPage = total THEN {} ELSE {currentPage + 1}) :
          /\ page <= MaxPage
          /\ currentPage' = page
  /\ UNCHANGED <<searchQuery, selectedCategory, pageSize, appVars, providerVars, logVars, engineVars>>

\* Mutant: the page size changes and the page stays.
onPageSizeChangeKeepingPage ==
  /\ NoModal
  /\ PaginationShown
  /\ \E size \in pageSizes \ {pageSize} : pageSize' = size
  /\ UNCHANGED <<currentPage, searchQuery, selectedCategory, appVars, providerVars, logVars, engineVars>>

\* onChange of the page size select: setPageSize(size); setCurrentPage(1)
onPageSizeChange ==
  /\ NoModal
  /\ PaginationShown
  /\ \E size \in pageSizes \ {pageSize} : pageSize' = size
  /\ currentPage' = 1
  /\ UNCHANGED <<searchQuery, selectedCategory, appVars, providerVars, logVars, engineVars>>

\* onClick of a row: onEditPrompt(prompt).  A row is opened while the store is
\* the list it started as, so that one deletion is explored from each list.
onEditPrompt ==
  /\ prompts \in {Listed(n) : n \in 0..MaxListed}
  /\ handleEditPrompt

\* The list, and the editor opened from a row to cancel or to delete.
ListNext ==
  \/ onSearchChange \/ onCategoryChange \/ onPageChange \/ onPageSizeChange
  \/ onEditPrompt \/ handleCancel
  \/ handleDeleteClick \/ handleDeleteConfirm \/ handleDeleteCancel

SpecList == ListStart /\ [][ListNext]_vars

\* ------------------------------------------------- the calls of ErrorHandler
\* The methods of the singleton called in any order, on a log that starts
\* empty.

\* Most errors logged.
MaxLogged == 102

\* The limits getErrorLog is called with, 0 for none.
Limits == {0, 1, 2, maxLogSize, maxLogSize + 1}

logError ==
  /\ logged < MaxLogged
  /\ errorLog' = push(errorLog, logged + 1)
  /\ logged' = logged + 1
  /\ logCall' = "logError"
  /\ logLimit' = 0
  /\ logResult' = <<>>
  /\ UNCHANGED <<engineVars, appVars, listVars, providerVars>>

getErrorLog ==
  /\ \E limit \in Limits :
       /\ logLimit' = limit
       /\ logResult' = ErrorLogUpTo(errorLog, limit)
  /\ logCall' = "getErrorLog"
  /\ UNCHANGED <<errorLog, logged, engineVars, appVars, listVars, providerVars>>

clearErrorLog ==
  /\ errorLog' = <<>>
  /\ logCall' = "clearErrorLog"
  /\ logLimit' = 0
  /\ logResult' = <<>>
  /\ UNCHANGED <<logged, engineVars, appVars, listVars, providerVars>>

LogNext == logError \/ getErrorLog \/ clearErrorLog

SpecLog == AppStart /\ [][LogNext]_vars

\* ------------------------------------------------- vocabulary of the claims
\* These definitions describe templates and results on their own terms: of
\* the definitions above they use the characters only, not the functions.
Range(s) == {s[k] : k \in 1..Len(s)}

Braces == {OpenBrace, CloseBrace}

\* How many times the text s occurs in the text r.
Occurrences(s, r) ==
  Cardinality({i \in 1..(Len(r) - Len(s) + 1) : SubSeq(r, i, i + Len(s) - 1) = s})

\* s without its leading and trailing white space.
Trimmed(s) ==
  LET inked == {k \in 1..Len(s) : s[k] \notin WhiteSpace}
  IN IF inked = {} THEN <<>>
     ELSE SubSeq(s, CHOOSE k \in inked : \A l \in inked : k <= l,
                    CHOOSE k \in inked : \A l \in inked : l <= k)

\* The span i..j of t is a reference as a left-to-right scan finds it: a "{",
\* at least one character, and the first "}" after it, the "{" being the first
\* one since the previous "}" (an earlier one would have opened the span).
IsReference(t, i, j) ==
  /\ t[i] = OpenBrace
  /\ t[j] = CloseBrace
  /\ j > i + 1
  /\ \A k \in (i + 1)..(j - 1) : t[k] # CloseBrace
  /\ \A h \in 1..(i - 1) : t[h] = OpenBrace => \E k \in (h + 1)..(i - 1) : t[k] = CloseBrace

Positions(t, chars) == {k \in 1..Len(t) : t[k] \in chars}

References(t) ==
  {p \in Positions(t, {OpenBrace}) \X Positions(t, {CloseBrace}) :
     IsReference(t, p[1], p[2])}

\* The trimmed name of the span p.
NameAt(t, p) == Trimmed(SubSeq(t, p[1] + 1, p[2] - 1))

ReferencesTo(t, name) == {p \in References(t) : NameAt(t, p) = name}

\* Where the first reference to name starts.
FirstReference(t, name) ==
  CHOOSE i \in {p[1] : p \in ReferencesTo(t, name)} :
    \A p \in ReferencesTo(t, name) : i <= p[1]

\* A brace pair with no brace inside: "{", brace-free text (none allowed), "}".
IsBraceFreeSpan(t, i, j) ==
  /\ i < j
  /\ t[i] = OpenBrace
  /\ t[j] = CloseBrace
  /\ \A k \in (i + 1)..(j - 1) : t[k] \notin Braces

BraceFreeSpans(t) ==
  {p \in Positions(t, {OpenBrace}) \X Positions(t, {CloseBrace}) :
     IsBraceFreeSpan(t, p[1], p[2])}

\* The positions of t inside the spans of P, braces included.
Covered(P) == UNION {p[1]..p[2] : p \in P}

\* t without the positions in S.
RECURSIVE Without(_, _, _)
Without(t, i, S) ==
  IF i > Len(t) THEN <<>>
  ELSE (IF i \in S THEN <<>> ELSE <<t[i]>>) \o Without(t, i + 1, S)

\* s can be read off r from left to right, skipping characters of r.
RECURSIVE IsSubsequence(_, _)
IsSubsequence(s, r) ==
  IF s = <<>> THEN TRUE
  ELSE IF r = <<>> THEN FALSE
  ELSE IF Head(s) = Head(r) THEN IsSubsequence(Tail(s), Tail(r))
  ELSE IsSubsequence(s, Tail(r))

\* The scan and its description agree on every template: the matches of the
\* pattern are the references.
ScanAgrees ==
  {<<m.start, m.end>> : m \in Range(matchAll(template))} = References(template)

\* ------------------------------------------------------------------ claims
\* C1: extractVariables returns no name twice, and the names stand in the
\* order in which their first references occur in the template.
C1_DistinctInFirstOccurrenceOrder ==
  pc = "extracted" =>
    \A i, j \in 1..Len(variables) :
      i < j =>
        /\ variables[i] # variables[j]
        /\ ReferencesTo(template, variables[i]) # {}
        /\ ReferencesTo(template, variables[j]) # {}
        /\ FirstReference(template, variables[i]) < FirstReference(template, variables[j])

\* C1 witness: two names were extracted, one of them referenced before the other.
C1_Witness ==
  /\ pc = "extracted"
  /\ Len(variables) = 2
  /\ Cardinality(References(template)) = 2

\* C1 second witness state: a name referenced twice was extracted once.
C1_DuplicateReached ==
  /\ pc = "extracted"
  /\ Len(variables) = 1
  /\ Cardinality(ReferencesTo(template, variables[1])) = 2

\* A sentinel: a non-empty value with no brace that does not occur in t.
IsSentinel(v, t) ==
  /\ v # <<>>
  /\ \A k \in 1..Len(v) : v[k] \notin Braces
  /\ Occurrences(v, t) = 0

\* The mapping gives every extracted name its own sentinel.
SentinelMapping ==
  /\ \A n \in Range(variables) : n \in DOMAIN values /\ IsSentinel(values[n], template)
  /\ \A n, m \in Range(variables) : n # m => values[n] # values[m]

\* How many braces t holds.
BraceCount(t) == Cardinality(Positions(t, Braces))

\* C2: when the mapping gives every extracted name a distinct sentinel, each
\* sentinel occurs in the result of applyVariables as many times as the
\* template references its variable, and no brace of a reference is left.
C2_SentinelCounts ==
  (pc = "applied" /\ SentinelMapping) =>
    /\ \A n \in Range(variables) :
         Occurrences(values[n], result) = Cardinality(ReferencesTo(template, n))
    /\ BraceCount(result) = BraceCount(template) - 2 * Cardinality(References(template))

\* C2 witness: a variable referenced twice was given a sentinel, which stands
\* twice in the result.
C2_Witness ==
  /\ pc = "applied"
  /\ SentinelMapping
  /\ \E n \in Range(variables) :
       /\ Cardinality(ReferencesTo(template, n)) = 2
       /\ Occurrences(values[n], result) = 2

\* C3: applyVariables leaves unmatched braces and the text around them in
\* its output: the template without its brace pairs (a "{", brace-free text,
\* a "}") can be read off the result in order.
C3_UnmatchedBracesVerbatim ==
  pc = "applied" =>
    IsSubsequence(Without(template, 1, Covered(BraceFreeSpans(template))), result)

\* C4: no extracted name holds a brace, and two adjacent references give
\* their two names.
C4_NamesHoldNoBrace ==
  pc = "extracted" =>
    /\ \A k \in 1..Len(variables) : \A c \in Range(variables[k]) : c \notin Braces
    /\ template = <<OpenBrace, "a", CloseBrace, OpenBrace, "A", CloseBrace>>
         => variables = << <<"a">>, <<"A">> >>

\* Some brace pair of t holds white space and nothing else.
HasBlankSpan(t) ==
  \E p \in BraceFreeSpans(t) : p[2] > p[1] + 1 /\ NameAt(t, p) = <<>>

\* C5 as stated: every span applyVariables replaces has its trimmed name in
\* extractVariables(template), and with no name extracted the result is the
\* template.
C5_OnlyExtractedSpansRewritten ==
  pc = "applied" =>
    /\ \A p \in References(template) : NameAt(template, p) \in Range(variables)
    /\ variables = <<>> => result = template

\* C5 amended: every span applyVariables replaces has a trimmed name that is
\* extracted or empty; the value of a name occurs in the result only if the
\* name was extracted or is empty; and with no name extracted and no
\* white-space-only brace pair the result is the template.
C5_OnlyExtractedOrBlankSpansRewritten ==
  pc = "applied" =>
    /\ \A n \in DOMAIN values :
         (Occurrences(values[n], result) > 0 /\ IsSentinel(values[n], template))
           => n \in Range(variables) \cup {<<>>}
    /\ variables = <<>> => (HasBlankSpan(template) \/ result = template)
    /\ \A p \in References(template) :
         NameAt(template, p) \in Range(variables) \cup {<<>>}

\* C5 witness: nothing was extracted from a template with braces and without
\* a white-space-only pair, and applyVariables returned it unchanged.
C5_Witness ==
  /\ pc = "applied"
  /\ variables = <<>>
  /\ ~HasBlankSpan(template)
  /\ BraceFreeSpans(template) # {}
  /\ values # <<>>
  /\ result = template

\* C6: a reference whose trimmed name has no entry in the mapping gives way
\* to the empty string: with an empty mapping the result is the template
\* without its references.
C6_AbsentKeyGivesEmpty ==
  (pc = "applied" /\ DOMAIN values = {}) =>
    result = Without(template, 1, Covered(References(template)))

\* C7: a brace pair holding nothing or only white space gives way to the
\* empty string: when every brace of the template belongs to such a pair, the
\* result is the template without these pairs.
EmptyNameSpans(t) == {p \in BraceFreeSpans(t) : NameAt(t, p) = <<>>}

C7_EmptyNameSpansRemoved ==
  (/\ pc = "applied"
   /\ \A k \in 1..Len(template) :
        template[k] \in Braces => k \in Covered(EmptyNameSpans(template)))
    => result = Without(template, 1, Covered(EmptyNameSpans(template)))

\* C8: substitution is a single pass.  A value is copied into the result once
\* for each reference to its name, also when the value has the form of a
\* reference, and the value of a name that a copied value mentions is not
\* substituted for it: a sentinel occurs exactly as many times as the
\* template itself references its name.
C8_SinglePass ==
  pc = "applied" =>
    \A n \in DOMAIN values :
      LET copies == Occurrences(values[n], result)
          references == Cardinality(ReferencesTo(template, n))
      IN /\ copies >= references
         /\ IsSentinel(values[n], template) => copies = references

\* C8 witness: the value of one name is the text of a reference to another
\* name that has a value, and it stands in the result as it is.
C8_Witness ==
  /\ pc = "applied"
  /\ \E n, m \in DOMAIN values :
       /\ values[n] = <<OpenBrace>> \o m \o <<CloseBrace>>
       /\ ReferencesTo(template, n) # {}
       /\ ReferencesTo(template, m) = {}
       /\ Occurrences(values[n], result) = 1
       /\ Occurrences(values[m], result) = 0

C9_InteriorSpaceReached ==
  pc = "extracted" /\ variables = << <<"a", " ", "A">> >>

C9_BothCasesReached ==
  pc = "extracted" /\ variables = << <<"a">>, <<"A">> >>

\* Every brace pair of t, from a "{" to the first "}" after it, holds white
\* space only or nothing.
OnlyBlankSpans(t) ==
  \A i, j \in 1..Len(t) :
    (/\ i < j
     /\ t[i] = OpenBrace
     /\ t[j] = CloseBrace
     /\ \A k \in (i + 1)..(j - 1) : t[k] # CloseBrace)
      => \A k \in (i + 1)..(j - 1) : t[k] \in WhiteSpace

\* C10: extractVariables returns no empty name, and returns nothing for a
\* template whose brace pairs are all empty or hold white space only.
C10_NoEmptyName ==
  pc = "extracted" =>
    /\ \A k \in 1..Len(variables) : variables[k] # <<>>
    /\ OnlyBlankSpans(template) => variables = <<>>

\* C10 witness: a template with plain text, a white-space-only pair and an
\* empty pair gave no name.
C10_Witness ==
  /\ pc = "extracted"
  /\ OnlyBlankSpans(template)
  /\ HasBlankSpan(template)
  /\ \E k \in 1..(Len(template) - 1) :
       template[k] = OpenBrace /\ template[k + 1] = CloseBrace
  /\ \E k \in 1..Len(template) : template[k] \notin Braces \cup WhiteSpace
  /\ variables = <<>>

\* A "{" with no "}" after it, or a "}" with no "{" before it.
StrayBraces(t) ==
  {k \in 1..Len(t) :
     \/ t[k] = OpenBrace /\ \A l \in (k + 1)..Len(t) : t[l] # CloseBrace
     \/ t[k] = CloseBrace /\ \A l \in 1..(k - 1) : t[l] # OpenBrace}

\* C11: extractVariables ignores stray braces.  A template all of whose
\* braces are stray yields the empty sequence, and the names extracted from a
\* template are those extracted from it with its stray braces taken out.
C11_StrayBracesIgnored ==
  pc = "extracted" =>
    /\ Positions(template, Braces) \subseteq StrayBraces(template) => variables = <<>>
    /\ variables = extractVariables(Without(template, 1, StrayBraces(template)))

\* C11 witness: names were extracted from a template that starts with a stray
\* "}" and ends with a stray "{".
C11_Witness ==
  /\ pc = "extracted"
  /\ variables = << <<"a">> >>
  /\ Len(template) >= 2
  /\ {1, Len(template)} \subseteq StrayBraces(template)
  /\ template[1] = CloseBrace
  /\ template[Len(template)] = OpenBrace

\* C11, second case: a template holds braces, all of them stray.
C11_OnlyStrayReached ==
  /\ pc = "extracted"
  /\ variables = <<>>
  /\ Cardinality(StrayBraces(template)) >= 2
  /\ Positions(template, Braces) = StrayBraces(template)

\* C12: extractVariables and applyVariables are total.  Whatever the template
\* and the mapping, each call returns a value of its type, a list of names or
\* a text, and never the outcome of a raised error.
C12_Total ==
  /\ pc = "extracted" => variables \in Seq(Seq(STRING))
  /\ pc = "applied" => (result \in Seq(STRING) /\ result # Thrown)

\* C12 witness: applyVariables returned a text for a template with a stray
\* brace and a reference whose name the mapping has no entry for.
C12_Witness ==
  /\ pc = "applied"
  /\ StrayBraces(template) # {}
  /\ \E p \in References(template) :
       /\ NameAt(template, p) = <<"A">>
       /\ NameAt(template, p) \notin DOMAIN values
  /\ values # <<>>
  /\ result \in Seq(STRING)

\* The mapping V without the entries whose key is not in names.
Restrict(V, names) == [n \in DOMAIN V \cap names |-> V[n]]

\* C13: entries of the mapping whose key the template does not reference have
\* no effect: the result is what applyVariables returns for the mapping
\* restricted to the names extracted from the template.
C13_UnreferencedEntriesIdle ==
  pc = "applied" =>
    result = applyVariables(template, Restrict(values, Range(variables)))

\* C14: when the template effect has run for the latest template, the keys of
\* the editor's value mapping are the names extracted from the template; a
\* name that had a value keeps it, and a new name starts as the empty string.
C14_ReconciledKeysAndValues ==
  [][(pc = "pending" /\ pc' = "idle") =>
       /\ DOMAIN values' = Range(variables')
       /\ \A n \in DOMAIN values' :
            values'[n] = IF n \in DOMAIN values THEN values[n] ELSE <<>>]_vars

\* C15: whenever every variable of the template in the editor has the empty
\* value, the preview shows the placeholder message.
C15_PlaceholderWhenAllEmpty ==
  (/\ pc = "idle"
   /\ variables # <<>>
   /\ \A n \in DOMAIN values : values[n] = <<>>)
    => ShowsPlaceholder(result)

\* The ids of the prompts of a list.
IdsOf(ps) == {ps[k].id : k \in 1..Len(ps)}

\* The valid prompts a file holds, in its order: the items of an export
\* object or of an array whose fields are strings.
ValidItems(file) ==
  IF file.kind \in {"export", "array"}
  THEN SelectSeq(file.items, LAMBDA q : NotAString \notin {q.id, q.title, q.category})
  ELSE <<>>

\* The step in which an import that was reading its file comes to its end.
ImportEnds == importing.status = "reading" /\ importing'.status # "reading"

\* C16: a replace sets the store to the valid prompts of the file; a merge
\* sets it to the prompts it held, unchanged and in their order, followed by
\* the prompts of the file whose id it did not hold, and leaves it unchanged
\* when the file brings no new id.
C16_ReplaceAndMerge ==
  [][(ImportEnds /\ importing'.status # "rejected") =>
       IF importing'.status = "replaced"
       THEN prompts' = ValidItems(importing.file)
       ELSE prompts' = prompts \o SelectSeq(ValidItems(importing.file),
                                            LAMBDA q : q.id \notin IdsOf(prompts))]_vars

\* C17: an import of a file that cannot be read, is not JSON, is neither an
\* export object nor an array, or holds no valid prompt ends with the promise
\* rejected, dispatches no IMPORT_PROMPTS and leaves the prompts of the store
\* unchanged.
C17_FailedImportChangesNothing ==
  [][(ImportEnds /\ ValidItems(importing.file) = <<>>) =>
       /\ importing'.status = "rejected"
       /\ dispatched' # "IMPORT_PROMPTS"
       /\ prompts' = prompts]_vars

\* C17 witness: the import of an export object whose items are all malformed
\* was rejected while the store held prompts.
C17_Witness ==
  /\ importing.status = "rejected"
  /\ importing.file.kind = "export"
  /\ importing.file.items # <<>>
  /\ prompts # <<>>
  /\ dispatched = "NONE"

\* C17, the other failures: each kind of file that fails was rejected.
C17_ScalarReached == importing.status = "rejected" /\ importing.file.kind = "scalar"

\* C19: a prompt is deleted only after a confirmation.  DELETE_PROMPT is
\* dispatched only from the delete dialog, which only the Delete button of
\* the open editor brings up, for the prompt being edited; the prompts with
\* the id of the prompt in the dialog are what the store loses; and a dialog
\* closed without the dispatch leaves the prompts of the store unchanged.
C19_DeleteOnlyAfterConfirmation ==
  [][/\ dispatched' = "DELETE_PROMPT" =>
          /\ deleteConfirmPrompt # NoPrompt
          /\ deleteConfirmPrompt' = NoPrompt
          /\ prompts' = SelectSeq(prompts, LAMBDA q : q.id # deleteConfirmPrompt.id)
     /\ (deleteConfirmPrompt = NoPrompt /\ deleteConfirmPrompt' # NoPrompt) =>
          /\ isEditorOpen
          /\ deleteConfirmPrompt' = editingPrompt
          /\ prompts' = prompts
     /\ (deleteConfirmPrompt # NoPrompt /\ deleteConfirmPrompt' = NoPrompt
           /\ dispatched' # "DELETE_PROMPT") =>
          prompts' = prompts]_vars

\* C19 witness: a confirmed deletion took one prompt out of a store of two.
C19_Witness ==
  /\ dispatched = "DELETE_PROMPT"
  /\ Len(prompts) = 1
  /\ deleteConfirmPrompt = NoPrompt
  /\ ~isEditorOpen

\* C18: loadPrompts never throws, so that the load ends in LOAD_SUCCESS.  It
\* returns the empty list when nothing is stored, when the stored text cannot
\* be parsed into an object, when the version of the stored object is not
\* STORAGE_VERSION, the stored item being then removed, and when its prompts
\* field is not an array; otherwise it returns the stored prompts and leaves
\* the item as it is.
C18_LoadFallsBack ==
  [][(isLoading /\ ~isLoading') =>
       /\ dispatched' = "LOAD_SUCCESS"
       /\ storage.kind # "object" => prompts' = <<>>
       /\ storage.kind = "none" => storage' = storage
       /\ (storage.kind = "object" /\ storage.version # "v1") =>
            (prompts' = <<>> /\ storage' = NoItem)
       /\ (storage.kind = "object" /\ storage.version = "v1" /\ ~storage.isArray) =>
            prompts' = <<>>
       /\ (storage.kind = "object" /\ storage.version = "v1" /\ storage.isArray) =>
            (prompts' = storage.prompts /\ storage' = storage)]_vars

\* C18 witness: the load found an object of another version, returned the
\* empty list and removed the item.
C18_Witness ==
  /\ dispatched = "LOAD_SUCCESS"
  /\ prompts = <<>>
  /\ storage = NoItem

\* C18, the other cases: stored prompts were returned, and a text that is
\* not JSON gave the empty list.
C18_StoredReached == dispatched = "LOAD_SUCCESS" /\ Len(prompts) = 2 /\ storage.isArray
C18_UnparsableReached == dispatched = "LOAD_SUCCESS" /\ storage.kind = "unparsable"

\* C20: the list returns to page 1 whenever the search query, the selected
\* category or the page size changes, whatever page was shown before.
C20_PageResetOnChange ==
  [][(\/ searchQuery' # searchQuery
      \/ selectedCategory' # selectedCategory
      \/ pageSize' # pageSize) => currentPage' = 1]_vars

\* C20 witness: the list shows page 1 of several after the query, the
\* category and the page size have all been changed.
C20_Witness ==
  /\ currentPage = 1
  /\ searchQuery # ""
  /\ selectedCategory # ""
  /\ pageSize # DefaultPageSize
  /\ PaginationShown

\* C20: a page other than the first is shown, from which a change returns.
C20_LaterPageReached ==
  /\ currentPage = 2
  /\ selectedCategory = "Coding"
  /\ totalPages(prompts, selectedCategory, searchQuery, pageSize) = 2
\* The last n elements of s, all of s when it has fewer.
LastOf(s, n) == SubSeq(s, Len(s) - (IF n < Len(s) THEN n ELSE Len(s)) + 1, Len(s))

\* C21: the error log never holds more than maxLogSize errors; logError leaves
\* in it the last maxLogSize of the errors it held followed by the new one, so
\* that the oldest goes first; clearErrorLog empties it; and getErrorLog(n)
\* with a positive n leaves it alone and returns its last min(n, size) errors.
C21_BoundedLog ==
  [][/\ Len(errorLog') <= maxLogSize
     /\ logCall' = "logError" =>
          errorLog' = LastOf(Append(errorLog, logged'), maxLogSize)
     /\ logCall' = "clearErrorLog" => errorLog' = <<>>
     /\ logCall' = "getErrorLog" =>
          /\ errorLog' = errorLog
          /\ logLimit' > 0 => logResult' = LastOf(errorLog, logLimit')]_vars

\* C21 witness: more than maxLogSize errors were logged, the log is full and
\* its oldest error is not the first one logged, and getErrorLog(2) returned
\* the two logged last.
C21_Witness ==
  /\ logCall = "getErrorLog"
  /\ logLimit = 2
  /\ Len(errorLog) = maxLogSize
  /\ errorLog[1] > 1
  /\ logResult = <<logged - 1, logged>>

\* C21, the limit above the size of the log: the whole log is returned.
C21_WholeReached ==
  /\ logCall = "getErrorLog"
  /\ logLimit = maxLogSize + 1
  /\ logResult = errorLog
  /\ Len(errorLog) = maxLogSize

\* C22: once the provider has unmounted, no step dispatches LOAD_SUCCESS or
\* LOAD_ERROR, and none changes the prompts or isLoading of the store, whether
\* the load timer fires before the unmount or after it.
C22_NoLoadDispatchAfterUnmount ==
  [][cancelled =>
       /\ dispatched' \notin {"LOAD_SUCCESS", "LOAD_ERROR"}
       /\ prompts' = prompts
       /\ isLoading' = isLoading
       /\ storage' = storage]_vars

\* C22 witness: the load timer fired after the unmount, and the store is
\* loading still.
C22_Witness ==
  /\ cancelled
  /\ loadTimer = "fired"
  /\ isLoading
  /\ dispatched = "NONE"

\* C22, the other interleaving: the timer fired first, and the unmount found
\* the store loaded.
C22_LoadedThenUnmounted == cancelled /\ loadTimer = "fired" /\ ~isLoading

\* C23: a step that leaves the store loading leaves localStorage as it is, and
\* the step that ends the load writes no list to it: it leaves the item or,
\* when loadPrompts found another version, removes it.
C23_NoSaveWhileLoading ==
  [][/\ isLoading' => storage' = storage
     /\ (isLoading /\ ~isLoading') => storage' \in {storage, NoItem}]_vars

\* C23 witness: a prompt was added while the store was loading, and the item
\* in localStorage holds the two prompts an earlier session saved.
C23_Witness ==
  /\ isLoading
  /\ dispatched = "ADD_PROMPT"
  /\ Len(prompts) = 1
  /\ storage.kind = "object"
  /\ Len(storage.prompts) = 2

\* C30: the step that reduces LOAD_SUCCESS keeps every prompt the list held
\* before it.
C30_LoadKeepsAddedPrompts ==
  [][dispatched' = "LOAD_SUCCESS" =>
       \A k \in 1..Len(prompts) : prompts[k] \in Range(prompts')]_vars

\* C24: the step that reduces UPDATE_PROMPT, for the prompt being edited and
\* the data typed, keeps the length and the order of the list and isLoading;
\* a prompt of that id keeps its id and createdAt and takes the title, the
\* category and the template typed; every other prompt stays as it is; and
\* when no prompt has that id the list stays as it is.
C24_UpdateFrame ==
  [][dispatched' = "UPDATE_PROMPT" =>
       /\ Len(prompts') = Len(prompts)
       /\ isLoading' = isLoading
       /\ \A k \in 1..Len(prompts) :
            IF prompts[k].id = editingPrompt.id
            THEN /\ prompts'[k].id = prompts[k].id
                 /\ prompts'[k].createdAt = prompts[k].createdAt
                 /\ prompts'[k].title = TypedTitle
                 /\ prompts'[k].category = "Other"
                 /\ prompts'[k].template = TypedTemplate
            ELSE prompts'[k] = prompts[k]
       /\ editingPrompt.id \notin IdsOf(prompts) => prompts' = prompts]_vars

\* C24 witness: of two prompts imported from a file the first was updated: it
\* holds what was typed under its id and its date of creation, and the second
\* is as the file had it.
C24_Witness ==
  /\ dispatched = "UPDATE_PROMPT"
  /\ Len(prompts) = 2
  /\ prompts[1] = [FileP1 EXCEPT !.title = TypedTitle, !.template = TypedTemplate,
                                 !.updatedAt = DateNow]
  /\ prompts[2] = FileP2

\* C24, the id that no prompt has: the prompt being edited left the store
\* through an import, and the update changed nothing.
C24_AbsentIdReached ==
  /\ dispatched = "UPDATE_PROMPT"
  /\ prompts = <<FileP1>>
  /\ importing.status = "replaced"

\* C25: every prompt of the store has one of the four categories.
C25_CategoriesValid ==
  \A k \in 1..Len(prompts) : prompts[k].category \in CATEGORIES

\* C26: the file handleExport downloads from a store P is one that
\* validateImportData resolves, with P.
C26_ExportImportRoundTrip ==
  [][exported' # exported =>
       validateImportData(exported') = Resolved(prompts)]_vars

\* C27: the step that applies a merge keeps every prompt the store holds when
\* it is applied, and every prompt of the store after it was in the store
\* before it or is a valid prompt of the file.
C27_MergeKeepsCurrentStore ==
  [][(ImportEnds /\ importing'.status = "merged") =>
       /\ \A k \in 1..Len(prompts) : prompts[k] \in Range(prompts')
       /\ \A k \in 1..Len(prompts') :
            prompts'[k] \in Range(prompts) \cup Range(ValidItems(importing.file))]_vars

\* C29: no two prompts of the store have the same id.
C29_IdsDistinct ==
  \A j, k \in 1..Len(prompts) : j # k => prompts[j].id # prompts[k].id

\* C28: with the store loaded, the page shown is between 1 and the number of
\* pages of the filtered list, 1 when that list is empty.
C28_PageWithinBounds ==
  LET total == totalPages(prompts, selectedCategory, searchQuery, pageSize)
  IN ~isLoading =>
       /\ 1 <= currentPage
       /\ currentPage <= (IF total < 1 THEN 1 ELSE total)

====
